---- MODULE Spec2Model ----
(***************************************************************************)
(* A model of the ReAct research agent: the action parser                  *)
(* (extract_json_block), the tool registry built at construction, the two  *)
(* tools' run methods and the agent loop ReActAgent.run.                   *)
(*                                                                         *)
(* Python strings are sequences of chunks (TLA+ strings).  Identifiers     *)
(* (tool names, JSON keys, fence labels) are chunked one character per     *)
(* chunk, so that lower() and replace() act on characters; fixed message   *)
(* texts are single chunks.  A model response is a sequence of lexical     *)
(* tokens, which json.loads and the fence regex read token by token.       *)
(*                                                                         *)
(* The fields of a record are written in the order of their first          *)
(* occurrence in the module, which is the order TLC keeps them in, so that *)
(* a value shared by TLC's workers is never rearranged while it is read.   *)
(***************************************************************************)
EXTENDS Integers, Sequences, FiniteSets, TLC

\* The largest max_iterations value explored (the field's default is 5).
MaxIterations == 2

\* The number of times the start button is pressed in the window of gui.py.
MaxRuns == 3

----------------------------------------------------------------------------
\* Python values

PyNone == [ty |-> "None"]
PyStr(s) == [ty |-> "str", s |-> s]
PyInt(digits) == [ty |-> "int", s |-> digits]
PyBool(b) == [ty |-> "bool", b |-> b]
PyList(xs) == [ty |-> "list", xs |-> xs]
PyDict(ks, vs) == [ty |-> "dict", ks |-> ks, vs |-> vs]
\* A response text: a str whose characters are grouped into lexical tokens.
PyText(toks) == [ty |-> "str", toks |-> toks]

\* The outcome of evaluating an expression: a value, or a raised exception.
Ret(v) == [exc |-> "none", val |-> v, msg |-> <<>>]
Raise(type, msg) == [exc |-> type, val |-> PyNone, msg |-> msg]

Range(f) == {f[x] : x \in DOMAIN f}

\* ---- str methods used by the code ----

UpperChars == <<"A","B","C","D","E","F","G","H","I","J","K","L","M",
                "N","O","P","Q","R","S","T","U","V","W","X","Y","Z">>
LowerChars == <<"a","b","c","d","e","f","g","h","i","j","k","l","m",
                "n","o","p","q","r","s","t","u","v","w","x","y","z">>

LowerChar(c) ==
    IF \E i \in DOMAIN UpperChars : UpperChars[i] = c
    THEN LowerChars[CHOOSE i \in DOMAIN UpperChars : UpperChars[i] = c]
    ELSE c

\* str.lower()
StrLower(s) == [i \in DOMAIN s |-> LowerChar(s[i])]

\* str.replace(old, new) for a one-character old
StrReplace(s, old, new) == [i \in DOMAIN s |-> IF s[i] = old THEN new ELSE s[i]]

\* needle in hay, for two str
IsSubstring(needle, hay) ==
    \E off \in 0..(Len(hay) - Len(needle)) :
        \A i \in 1..Len(needle) : hay[off + i] = needle[i]

\* ", ".join(names)
RECURSIVE JoinNames(_)
JoinNames(names) ==
    IF names = <<>> THEN <<>>
    ELSE IF Len(names) = 1 THEN names[1]
    ELSE names[1] \o <<", ">> \o JoinNames(Tail(names))

\* The identifiers the code names literally.
K_action == <<"a","c","t","i","o","n">>
K_tool_name == <<"t","o","o","l","_","n","a","m","e">>
K_argument == <<"a","r","g","u","m","e","n","t">>
K_thought == <<"t","h","o","u","g","h","t">>
FINAL_ANSWER == <<"f","i","n","a","l","_","a","n","s","w","e","r">>
K_json == <<"j","s","o","n">>

----------------------------------------------------------------------------
\* json.loads, on tokens

Tok(k, v) == [v |-> v, k |-> k]
T(k) == Tok(k, <<>>)

IsJsonWs(t) == t.k \in {"ws", "nl"}

\* The first position at or after p that holds no JSON whitespace.
RECURSIVE SkipWs(_, _)
SkipWs(toks, p) ==
    IF p <= Len(toks) /\ IsJsonWs(toks[p]) THEN SkipWs(toks, p + 1) ELSE p

ParseOk(v, pos) == [val |-> v, pos |-> pos, ok |-> TRUE]
ParseFail == [val |-> PyNone, pos |-> 0, ok |-> FALSE]

\* dict[key] = val: a repeated key keeps its place and takes the later value.
DictSet(d, key, val) ==
    IF \E i \in DOMAIN d.ks : d.ks[i] = key
    THEN LET i == CHOOSE j \in DOMAIN d.ks : d.ks[j] = key
         IN PyDict(d.ks, [d.vs EXCEPT ![i] = val])
    ELSE PyDict(Append(d.ks, key), Append(d.vs, val))

\* A scanner that folds the letter case of string literals.
JsonString_lowered(t) == PyStr(StrLower(t.v))

\* The str a string literal decodes to: its characters, unchanged.
JsonString(t) == PyStr(t.v)

RECURSIVE ParseValue(_, _), ParseElems(_, _, _), ParseMembers(_, _, _)

\* After an element e of an array: a comma and the next element, or the
\* closing bracket at r.
ElemsNext(toks, r, acc) ==
    IF r > Len(toks) THEN ParseFail
    ELSE IF toks[r].k = "comma" THEN ParseElems(toks, r + 1, acc)
    ELSE IF toks[r].k = "rbrack" THEN ParseOk(PyList(acc), r + 1)
    ELSE ParseFail
ElemsAfter(toks, e, acc) ==
    IF ~e.ok THEN ParseFail
    ELSE ElemsNext(toks, SkipWs(toks, e.pos), Append(acc, e.val))

\* The elements of an array, from the value at p to the closing bracket.
ParseElems(toks, p, acc) == ElemsAfter(toks, ParseValue(toks, p), acc)

\* The text after "[", from its first non-blank token r.
ParseArrayAt(toks, r) ==
    IF r <= Len(toks) /\ toks[r].k = "rbrack"
    THEN ParseOk(PyList(<<>>), r + 1)
    ELSE ParseElems(toks, r, <<>>)

\* After a member of an object: a comma and the next member, or the closing
\* brace at r.
MembersNext(toks, r, acc) ==
    IF r > Len(toks) THEN ParseFail
    ELSE IF toks[r].k = "comma" THEN ParseMembers(toks, r + 1, acc)
    ELSE IF toks[r].k = "rbrace" THEN ParseOk(acc, r + 1)
    ELSE ParseFail
MemberAfter(toks, key, e, acc) ==
    IF ~e.ok THEN ParseFail
    ELSE MembersNext(toks, SkipWs(toks, e.pos), DictSet(acc, key, e.val))
\* The colon at c, after the key, and the member's value.
MemberColon(toks, key, c, acc) ==
    IF c > Len(toks) \/ toks[c].k # "colon" THEN ParseFail
    ELSE MemberAfter(toks, key, ParseValue(toks, c + 1), acc)
\* The key at q, a string literal.
MemberKey(toks, q, acc) ==
    IF q > Len(toks) \/ toks[q].k # "str" THEN ParseFail
    ELSE MemberColon(toks, JsonString(toks[q]).s, SkipWs(toks, q + 1), acc)

\* The members of an object, from the key at p to the closing brace.
ParseMembers(toks, p, acc) == MemberKey(toks, SkipWs(toks, p), acc)

\* The text after "{", from its first non-blank token r.
ParseObjectAt(toks, r) ==
    IF r <= Len(toks) /\ toks[r].k = "rbrace"
    THEN ParseOk(PyDict(<<>>, <<>>), r + 1)
    ELSE ParseMembers(toks, r, PyDict(<<>>, <<>>))

\* The JSON value whose first token is at q.
ParseValueAt(toks, q) ==
    IF q > Len(toks) THEN ParseFail
    ELSE CASE toks[q].k = "str" -> ParseOk(JsonString(toks[q]), q + 1)
           [] toks[q].k = "num" -> ParseOk(PyInt(toks[q].v), q + 1)
           [] toks[q].k = "null" -> ParseOk(PyNone, q + 1)
           [] toks[q].k = "true" -> ParseOk(PyBool(TRUE), q + 1)
           [] toks[q].k = "false" -> ParseOk(PyBool(FALSE), q + 1)
           [] toks[q].k = "lbrack" -> ParseArrayAt(toks, SkipWs(toks, q + 1))
           [] toks[q].k = "lbrace" -> ParseObjectAt(toks, SkipWs(toks, q + 1))
           [] OTHER -> ParseFail

\* One JSON value starting at the first non-blank token at or after p.
ParseValue(toks, p) == ParseValueAt(toks, SkipWs(toks, p))

\* The whole text must be one value (blanks may follow it).
JsonLoadsEnd(toks, r) ==
    IF r.ok /\ SkipWs(toks, r.pos) > Len(toks)
    THEN Ret(r.val)
    ELSE Raise("JSONDecodeError", <<"Expecting value">>)

\* json.loads(text): the value, JSONDecodeError, or TypeError for a non-str.
JsonLoads(text) ==
    IF text.ty # "str"
    THEN Raise("TypeError", <<"the JSON object must be str, bytes or bytearray, not NoneType">>)
    ELSE JsonLoadsEnd(text.toks, ParseValue(text.toks, 1))

----------------------------------------------------------------------------
\* extract_json_block

\* str.strip() on a token sequence: blanks at both ends removed.
RECURSIVE StripLeft(_), StripRight(_)
StripLeft(toks) ==
    IF toks # <<>> /\ IsJsonWs(toks[1]) THEN StripLeft(Tail(toks)) ELSE toks
StripRight(toks) ==
    IF toks # <<>> /\ IsJsonWs(toks[Len(toks)])
    THEN StripRight(SubSeq(toks, 1, Len(toks) - 1)) ELSE toks
StripToks(toks) == StripRight(StripLeft(toks))

\* The pattern's opening at p: three backticks, the word json in any case
\* (re.IGNORECASE), then the two characters backslash and n.
FenceOpensAt(toks, p) ==
    /\ p + 2 <= Len(toks)
    /\ toks[p].k = "fence"
    /\ toks[p + 1].k = "word" /\ StrLower(toks[p + 1].v) = K_json
    /\ toks[p + 2].k = "bsn"

\* The pattern's closing at q: backslash, n, three backticks.
FenceClosesAt(toks, q) ==
    /\ q + 1 <= Len(toks)
    /\ toks[q].k = "bsn"
    /\ toks[q + 1].k = "fence"

FenceMatchAt(toks, p) ==
    FenceOpensAt(toks, p) /\ \E q \in (p + 3)..Len(toks) : FenceClosesAt(toks, q)

\* The nearest closing after the opening at p (.*? is lazy), and the group.
FenceGroup(toks, p) ==
    SubSeq(toks, p + 3,
           (CHOOSE a \in (p + 3)..Len(toks) :
                /\ FenceClosesAt(toks, a)
                /\ \A b \in (p + 3)..(a - 1) : ~FenceClosesAt(toks, b)) - 1)

\* re.search(r"```json\\n(.*?)\\n```", text, re.DOTALL | re.IGNORECASE):
\* the leftmost opening that has a closing.
ReSearchFence(toks) ==
    IF \E p \in 1..Len(toks) : FenceMatchAt(toks, p)
    THEN [found |-> TRUE,
          group1 |-> FenceGroup(toks, CHOOSE a \in 1..Len(toks) :
                                        /\ FenceMatchAt(toks, a)
                                        /\ \A b \in 1..(a - 1) : ~FenceMatchAt(toks, b))]
    ELSE [found |-> FALSE, group1 |-> <<>>]

\* A fallback that lets the decode error of the block's content escape.
ExtractInner_uncaught(inner) == inner

\* Lines 29-35: the block's content parsed, None when it is no JSON.
ExtractInner(inner) ==
    IF inner.exc = "JSONDecodeError" THEN Ret(PyNone) ELSE inner

\* Lines 26-38: the fence searched for, its content stripped and parsed.
ExtractFenced(match) ==
    IF match.found
    THEN ExtractInner(JsonLoads(PyText(StripToks(match.group1))))
    ELSE Ret(PyNone)

\* Lines 18-24: the whole text parsed; only JSONDecodeError is caught.
ExtractWhole(text, whole) ==
    IF whole.exc = "JSONDecodeError"
    THEN ExtractFenced(ReSearchFence(text.toks))
    ELSE whole

\* extract_json_block(text): the parsed data, None, or the exception that
\* json.loads raises for a text that is no str.
extract_json_block(text) == ExtractWhole(text, JsonLoads(text))

----------------------------------------------------------------------------
\* The Python operations ReActAgent.run applies to the parsed data

TypeName(v) ==
    CASE v.ty = "None" -> "NoneType"
      [] OTHER -> v.ty

\* bool(v)
Truthy(v) ==
    CASE v.ty = "None" -> FALSE
      [] v.ty = "bool" -> v.b
      [] v.ty = "int" -> v.s # <<"0">>
      [] v.ty = "str" -> v.s # <<>>
      [] v.ty = "list" -> v.xs # <<>>
      [] v.ty = "dict" -> v.ks # <<>>

\* key in container, for a str key: a dict's keys, a list's elements, a
\* str's substrings; anything else is not iterable.
PyIn(key, container) ==
    CASE container.ty = "dict" -> Ret(PyBool(key \in Range(container.ks)))
      [] container.ty = "list" -> Ret(PyBool(PyStr(key) \in Range(container.xs)))
      [] container.ty = "str" -> Ret(PyBool(IsSubstring(key, container.s)))
      [] OTHER -> Raise("TypeError",
                        <<"argument of type '", TypeName(container), "' is not iterable">>)

\* container[key], for a str key
PyGetItem(container, key) ==
    CASE container.ty = "dict" ->
            IF key \in Range(container.ks)
            THEN Ret(container.vs[CHOOSE i \in DOMAIN container.ks : container.ks[i] = key])
            ELSE Raise("KeyError", <<"'">> \o key \o <<"'">>)
      [] container.ty = "list" ->
            Raise("TypeError", <<"list indices must be integers or slices, not str">>)
      [] container.ty = "str" ->
            Raise("TypeError", <<"string indices must be integers">>)
      [] OTHER ->
            Raise("TypeError", <<"'", TypeName(container), "' object is not subscriptable">>)

\* obj.get(key), None when the key is absent
PyGet(obj, key) ==
    IF obj.ty = "dict"
    THEN IF key \in Range(obj.ks)
         THEN Ret(obj.vs[CHOOSE i \in DOMAIN obj.ks : obj.ks[i] = key])
         ELSE Ret(PyNone)
    ELSE Raise("AttributeError",
               <<"'", TypeName(obj), "' object has no attribute 'get'">>)

\* The Python builds differ on a dict subscripted by a slice: before 3.12 a
\* slice is unhashable, from 3.12 on the slice is a missing key.
Builds == {"py311", "py312"}

\* A progress print that slices only what is not None.
SliceFirst100_guarded(v, build) ==
    CASE v.ty \in {"str", "list", "None"} -> Ret(v)
      [] v.ty = "dict" ->
            IF build = "py311"
            THEN Raise("TypeError", <<"unhashable type: 'slice'">>)
            ELSE Raise("KeyError", <<"slice(None, 100, None)">>)
      [] OTHER ->
            Raise("TypeError", <<"'", TypeName(v), "' object is not subscriptable">>)

\* value[:100] as the two progress prints evaluate it.  The strings of the
\* model are shorter than 100 characters, so a str or a list comes back whole.
SliceFirst100(v, build) ==
    CASE v.ty \in {"str", "list"} -> Ret(v)
      [] v.ty = "dict" ->
            IF build = "py311"
            THEN Raise("TypeError", <<"unhashable type: 'slice'">>)
            ELSE Raise("KeyError", <<"slice(None, 100, None)">>)
      [] OTHER ->
            Raise("TypeError", <<"'", TypeName(v), "' object is not subscriptable">>)

\* hash(v), as a dict lookup computes it
Hashable(v) == v.ty \notin {"list", "dict"}

\* str(v) and repr(v), as an f-string renders a value
RECURSIVE PyRepr(_), ReprItems(_), ReprPairs(_, _)
PyStrOf(v) == IF v.ty = "str" THEN v.s ELSE PyRepr(v)
PyRepr(v) ==
    CASE v.ty = "None" -> <<"None">>
      [] v.ty = "bool" -> IF v.b THEN <<"True">> ELSE <<"False">>
      [] v.ty = "int" -> v.s
      [] v.ty = "str" -> <<"'">> \o v.s \o <<"'">>
      [] v.ty = "list" -> <<"[">> \o ReprItems(v.xs) \o <<"]">>
      [] v.ty = "dict" -> <<"{">> \o ReprPairs(v.ks, v.vs) \o <<"}">>
ReprItems(xs) ==
    IF xs = <<>> THEN <<>>
    ELSE IF Len(xs) = 1 THEN PyRepr(xs[1])
    ELSE PyRepr(xs[1]) \o <<", ">> \o ReprItems(Tail(xs))
ReprPairs(ks, vs) ==
    IF ks = <<>> THEN <<>>
    ELSE PyRepr(PyStr(ks[1])) \o <<": ">> \o PyRepr(vs[1])
            \o (IF Len(ks) = 1 THEN <<>> ELSE <<", ">> \o ReprPairs(Tail(ks), Tail(vs)))

----------------------------------------------------------------------------
\* The tools and the registry

\* A normalization that leaves the letter case as it is.
NormalizeName_keepsCase(name) ==
    StrReplace(StrReplace(name, " ", "_"), "-", "_")

\* Tool.model_post_init: the name lowercased, its spaces and hyphens made
\* underscores.
NormalizeName(name) ==
    StrReplace(StrReplace(StrLower(name), " ", "_"), "-", "_")

DefaultName(cls) ==
    CASE cls = "InternetSearchTool" ->
            <<"I","n","t","e","r","n","e","t"," ","S","e","a","r","c","h"," ","T","o","o","l">>
      [] cls = "ReportWritingTool" ->
            <<"R","e","p","o","r","t"," ","W","r","i","t","i","n","g"," ","T","o","o","l">>

\* description.lower() and arg_description.lower() of the two tool classes
DescriptionLower(cls) ==
    CASE cls = "InternetSearchTool" ->
            "searches the internet for information on a given topic or query. returns a summary of the search results."
      [] cls = "ReportWritingTool" ->
            "takes input text (e.g., research findings, search results) and writes a concise, well-structured report based on it. useful for summarizing information or drafting documents."
ArgDescriptionLower(cls) ==
    CASE cls = "InternetSearchTool" -> "the search query or topic to look up online."
      [] cls = "ReportWritingTool" ->
            "the text content that needs to be summarized and formatted into a report."

\* A tool object after construction; an LLMTool holds a client exactly when
\* the API key is set.
NewTool(cls, name, apiKey) ==
    [name |-> NormalizeName(name), cls |-> cls,
     client |-> (cls = "ReportWritingTool" /\ apiKey)]

\* A tool constructor call: the class, and the name field as passed or
\* defaulted, before model_post_init.
\* available_tools = [InternetSearchTool(), ReportWritingTool()]
AvailableTools ==
    << [name |-> DefaultName("InternetSearchTool"), cls |-> "InternetSearchTool"],
       [name |-> DefaultName("ReportWritingTool"), cls |-> "ReportWritingTool"] >>

\* The tool objects of a list of constructor calls.
NewTools(made, apiKey) ==
    [k \in DOMAIN made |-> NewTool(made[k].cls, made[k].name, apiKey)]

\* self.tools = {tool.name: tool for tool in tools}
RECURSIVE BuildRegistry(_, _)
BuildRegistry(toolList, acc) ==
    IF toolList = <<>> THEN acc
    ELSE BuildRegistry(Tail(toolList), DictSet(acc, toolList[1].name, toolList[1]))

\* Tool.get_tool_description_for_llm
get_tool_description_for_llm(tool) ==
    <<"Tool Name: ">> \o tool.name
        \o <<"\nDescription: ", DescriptionLower(tool.cls),
             "\nArgument: ", ArgDescriptionLower(tool.cls)>>

RECURSIVE JoinDescriptions(_)
JoinDescriptions(toolSeq) ==
    IF toolSeq = <<>> THEN <<>>
    ELSE IF Len(toolSeq) = 1 THEN get_tool_description_for_llm(toolSeq[1])
    ELSE get_tool_description_for_llm(toolSeq[1]) \o <<"\n\n">>
            \o JoinDescriptions(Tail(toolSeq))

\* ReActAgent._get_system_prompt
get_system_prompt(tools) ==
    <<"You are a helpful research assistant operating in a ReAct (Reasoning + Acting) loop. ... Available Tools:\n">>
        \o JoinDescriptions(tools.vs)
        \o <<"\nOutput Format: You MUST structure your response as a JSON block ... Begin!\n">>

\* _internal_web_search(query), the simulated search
SearchResultText(q) ==
    <<"Simulated search results for '">> \o q
        \o <<"':\n- Result 1: Information about ">> \o q
        \o <<"...\n- Result 2: More details on ">> \o q
        \o <<"...\n- Result 3: Related topics to ">> \o q \o <<"...">>
internal_web_search(query) == PyStr(SearchResultText(PyStrOf(query)))

\* InternetSearchTool.run
InternetSearchToolRun(argument) == Ret(internal_web_search(argument))

\* str.strip() == ""
IsBlankStr(s) == \A i \in DOMAIN s : s[i] \in {" ", "\n", "\t"}

\* What the report tool's own backend call does: return a text, or raise.
REPORT_TEXT == <<"# Report", "\n", "Findings on the topic.">>
ReportBackendOutcomes ==
    { [exc |-> "none", msg |-> <<>>, kind |-> "ok", content |-> PyStr(REPORT_TEXT)],
      [exc |-> "APIConnectionError", msg |-> <<"Connection error.">>, kind |-> "raise",
       content |-> PyNone] }

\* ReportWritingTool.run
ReportWritingToolRun(tool, argument, backend) ==
    IF argument.ty \notin {"str", "list", "dict"}
    THEN Raise("TypeError", <<"object of type '", TypeName(argument), "' has no len()">>)
    ELSE IF ~tool.client
    THEN Ret(PyStr(<<"Error: OpenAI client is not available. Cannot generate report. Please check API key setup.">>))
    ELSE IF ~Truthy(argument)
    THEN Ret(PyStr(<<"Error: Input text for the report is empty.">>))
    ELSE IF argument.ty # "str"
    THEN Raise("AttributeError",
               <<"'", TypeName(argument), "' object has no attribute 'strip'">>)
    ELSE IF IsBlankStr(argument.s)
    THEN Ret(PyStr(<<"Error: Input text for the report is empty.">>))
    ELSE IF backend.kind = "ok"
    THEN Ret(backend.content)
    ELSE Ret(PyStr(<<"Error during report generation: ">> \o backend.msg))

\* selected_tool.run(argument)
ToolRun(tool, argument, backend) ==
    CASE tool.cls = "InternetSearchTool" -> InternetSearchToolRun(argument)
      [] tool.cls = "ReportWritingTool" -> ReportWritingToolRun(tool, argument, backend)

----------------------------------------------------------------------------
\* ReActAgent.run: one iteration as a function of what the backend and the
\* tool's backend do

Msg(role, content) == [content |-> content, role |-> role]

ObservationMsg_noPrefix(text) == Msg("user", PyStr(text))
ObservationMsg(text) == Msg("user", PyStr(<<"Observation: ">> \o text))

\* The message the loop appends when no action could be parsed.
PARSE_FAILURE_TEXT ==
    <<"Your previous response was not in the expected JSON format. Please think step-by-step and provide your reasoning and action in the specified JSON structure.">>

BUDGET_MESSAGE ==
    PyStr(<<"Error: Agent reached maximum iterations without providing a final answer.">>)
NO_CLIENT_MESSAGE ==
    PyStr(<<"Error: Agent cannot run without an OpenAI client.">>)

\* What one iteration did: it goes on to the next iteration, returns from run,
\* or lets an exception leave run.
\* An iteration that goes on without leaving its observation.
Continue_silent(path, appended, calls) ==
    [exc |-> "none", kind |-> "continue", path |-> path, appended |-> <<>>,
     calls |-> calls, value |-> PyNone]

Continue(path, appended, calls) ==
    [exc |-> "none", kind |-> "continue", path |-> path, appended |-> appended,
     calls |-> calls, value |-> PyNone]

Return(value) ==
    [exc |-> "none", kind |-> "return", path |-> "final_answer", appended |-> <<>>,
     calls |-> <<>>, value |-> value]
Propagate(e, calls) ==
    [exc |-> e.exc, kind |-> "raise", path |-> "uncaught", appended |-> <<>>,
     calls |-> calls, value |-> PyNone]

\* The exceptions the model raises are all subclasses of Exception.
ExceptionClasses ==
    {"TypeError", "KeyError", "AttributeError", "JSONDecodeError", "APIConnectionError"}

\* A handler that catches only the errors of reading the response.
IterationError_narrow(e, path, calls) ==
    IF e.exc \in {"TypeError", "KeyError", "AttributeError", "JSONDecodeError"}
    THEN Continue(path,
                  <<ObservationMsg(<<"An error occurred in the previous step: ">> \o e.msg
                                   \o <<". Please assess the situation and proceed.">>)>>,
                  calls)
    ELSE Propagate(e, calls)

\* except Exception as e, around the whole iteration (lines 184-188)
IterationError(e, path, calls) ==
    IF e.exc \in ExceptionClasses
    THEN Continue(path,
                  <<ObservationMsg(<<"An error occurred in the previous step: ">> \o e.msg
                                   \o <<". Please assess the situation and proceed.">>)>>,
                  calls)
    ELSE Propagate(e, calls)

\* A handler whose observation names the tool and leaves the error text out.
ToolError_noText(tool_name, e, calls) ==
    IF e.exc \in ExceptionClasses
    THEN Continue("tool_error",
                  <<ObservationMsg(<<"Error executing tool ">> \o PyStrOf(tool_name))>>,
                  calls)
    ELSE IterationError(e, "iteration_error", calls)

\* except Exception as e, around the tool's run (lines 177-179)
ToolError(tool_name, e, calls) ==
    IF e.exc \in ExceptionClasses
    THEN Continue("tool_error",
                  <<ObservationMsg(<<"Error executing tool ">> \o PyStrOf(tool_name)
                                   \o <<": ">> \o e.msg)>>,
                  calls)
    ELSE IterationError(e, "iteration_error", calls)

\* 'tool_name' not in action_data['action'], given the two evaluations
ToolNameMissing(hasName) ==
    IF hasName.exc # "none" THEN hasName ELSE Ret(PyBool(~hasName.val.b))
ActionHasNoName(action) ==
    IF action.exc # "none" THEN action
    ELSE ToolNameMissing(PyIn(K_tool_name, action.val))
\* 'action' not in action_data or ..., given 'action' in action_data
ActionKeyMissing(action_data, hasAction) ==
    IF hasAction.exc # "none" THEN hasAction
    ELSE IF ~hasAction.val.b THEN Ret(PyBool(TRUE))
    ELSE ActionHasNoName(PyGetItem(action_data, K_action))

\* not action_data or 'action' not in action_data
\*     or 'tool_name' not in action_data['action']
ActionMissing(action_data) ==
    IF ~Truthy(action_data) THEN Ret(PyBool(TRUE))
    ELSE ActionKeyMissing(action_data, PyIn(K_action, action_data))

\* A membership test that normalizes the name as the constructor does.
RegistryHas_normalized(tools, tool_name) ==
    tool_name.ty = "str" /\ NormalizeName(tool_name.s) \in Range(tools.ks)

\* tool_name in self.tools
RegistryHas(tools, tool_name) ==
    tool_name.ty = "str" /\ tool_name.s \in Range(tools.ks)

\* A lookup that takes the first tool of the registry whatever the name.
RegistryGet_first(tools, tool_name) ==
    IF tool_name.ty = "str" /\ tool_name.s \in Range(tools.ks)
    THEN Ret(tools.vs[1])
    ELSE Raise("KeyError", PyRepr(tool_name))

\* self.tools[tool_name]
RegistryGet(tools, tool_name) ==
    IF tool_name.ty = "str" /\ tool_name.s \in Range(tools.ks)
    THEN Ret(tools.vs[CHOOSE i \in DOMAIN tools.ks : tools.ks[i] = tool_name.s])
    ELSE Raise("KeyError", PyRepr(tool_name))

ToolCall(tool, argument, out) ==
    [name |-> tool.name, cls |-> tool.cls, argument |-> argument, out |-> out]

\* Lines 174-182: the tool has run; its result or its exception observed.
ToolRan(tool_name, call) ==
    IF call.out.exc # "none" THEN ToolError(tool_name, call.out, <<call>>)
    ELSE Continue("tool_ok", <<ObservationMsg(PyStrOf(call.out.val))>>, <<call>>)

\* Lines 170-174: the progress print, then the tool's run.
RunSelected(selected_tool, tool_name, argument, shown, backend) ==
    IF selected_tool.exc # "none"
    THEN IterationError(selected_tool, "iteration_error", <<>>)
    ELSE IF shown.exc # "none" THEN ToolError(tool_name, shown, <<>>)
    ELSE ToolRan(tool_name,
                 ToolCall(selected_tool.val, argument,
                          ToolRun(selected_tool.val, argument, backend)))

\* Lines 166-167: the observation for a name the registry does not hold.
ToolNotFound(tools, tool_name) ==
    Continue("tool_not_found",
             <<ObservationMsg(<<"Error: Tool '">> \o PyStrOf(tool_name)
                              \o <<"' not found. Available tools are: ">>
                              \o JoinNames(tools.ks))>>,
             <<>>)

\* Lines 166-182: the lookup, the tool's run and the observation.
Dispatch(tools, tool_name, argument, build, backend) ==
    IF ~Hashable(tool_name)
    THEN IterationError(Raise("TypeError",
                              <<"unhashable type: '", TypeName(tool_name), "'">>),
                        "iteration_error", <<>>)
    ELSE IF ~RegistryHas(tools, tool_name) THEN ToolNotFound(tools, tool_name)
    ELSE RunSelected(RegistryGet(tools, tool_name), tool_name, argument,
                     SliceFirst100(argument, build), backend)

\* Lines 159-182: the progress print, then the final answer or the dispatch.
ActOnAction(tools, tool_name, argument, shown, build, backend) ==
    IF shown.exc # "none" THEN IterationError(shown, "iteration_error", <<>>)
    ELSE IF tool_name = PyStr(FINAL_ANSWER) THEN Return(argument)
    ELSE Dispatch(tools, tool_name, argument, build, backend)

\* Lines 155-156: tool_name and argument read from the action.
ActOnFields(tools, tool_name, argument, build, backend) ==
    IF tool_name.exc # "none" THEN IterationError(tool_name, "iteration_error", <<>>)
    ELSE IF argument.exc # "none" THEN IterationError(argument, "iteration_error", <<>>)
    ELSE ActOnAction(tools, tool_name.val, argument.val,
                     SliceFirst100(argument.val, build), build, backend)

\* Lines 154-156: thought and action read from the data.
ActOnData(tools, thought, action, build, backend) ==
    IF thought.exc # "none" THEN IterationError(thought, "iteration_error", <<>>)
    ELSE IF action.exc # "none" THEN IterationError(action, "iteration_error", <<>>)
    ELSE ActOnFields(tools, PyGet(action.val, K_tool_name), PyGet(action.val, K_argument),
                     build, backend)

\* Lines 148-152: the check of the parsed data.
ActOnChecked(tools, action_data, missing, build, backend) ==
    IF missing.exc # "none" THEN IterationError(missing, "iteration_error", <<>>)
    ELSE IF missing.val.b
    THEN Continue("parse_failure", <<ObservationMsg(PARSE_FAILURE_TEXT)>>, <<>>)
    ELSE ActOnData(tools, PyGet(action_data, K_thought), PyGetItem(action_data, K_action),
                   build, backend)

ActOnParsed(tools, parsed, build, backend) ==
    IF parsed.exc # "none" THEN IterationError(parsed, "iteration_error", <<>>)
    ELSE ActOnChecked(tools, parsed.val, ActionMissing(parsed.val), build, backend)

\* Lines 147-182: the iteration from the parse on, for the response llm_output.
ActOn(tools, llm_output, build, backend) ==
    ActOnParsed(tools, extract_json_block(llm_output), build, backend)

----------------------------------------------------------------------------
\* The responses the reasoning backend may give.  The system prompt (lines
\* 91-101) asks for a JSON object, shown inside a ```json fence.

\* The text of a JSON value: one blank after each colon and comma.
RECURSIVE Dumps(_), DumpItems(_), DumpPairs(_, _)
Dumps(v) ==
    CASE v.ty = "None" -> <<T("null")>>
      [] v.ty = "bool" -> IF v.b THEN <<T("true")>> ELSE <<T("false")>>
      [] v.ty = "int" -> <<Tok("num", v.s)>>
      [] v.ty = "str" -> <<Tok("str", v.s)>>
      [] v.ty = "list" -> <<T("lbrack")>> \o DumpItems(v.xs) \o <<T("rbrack")>>
      [] v.ty = "dict" -> <<T("lbrace")>> \o DumpPairs(v.ks, v.vs) \o <<T("rbrace")>>
DumpItems(xs) ==
    IF xs = <<>> THEN <<>>
    ELSE IF Len(xs) = 1 THEN Dumps(xs[1])
    ELSE Dumps(xs[1]) \o <<T("comma"), T("ws")>> \o DumpItems(Tail(xs))
DumpPairs(ks, vs) ==
    IF ks = <<>> THEN <<>>
    ELSE <<Tok("str", ks[1]), T("colon"), T("ws")>> \o Dumps(vs[1])
            \o (IF Len(ks) = 1 THEN <<>>
                ELSE <<T("comma"), T("nl")>> \o DumpPairs(Tail(ks), Tail(vs)))

THOUGHT == PyStr(<<"I need more information.">>)

\* {"thought": ..., "action": {"tool_name": ..., "argument": ...}}
ActionObject(tool_name, argument) ==
    PyDict(<<K_thought, K_action>>,
           <<THOUGHT, PyDict(<<K_tool_name, K_argument>>, <<tool_name, argument>>)>>)
\* The same without the argument field.
ActionNoArgument(tool_name) ==
    PyDict(<<K_thought, K_action>>, <<THOUGHT, PyDict(<<K_tool_name>>, <<tool_name>>)>>)

N_search == NormalizeName(DefaultName("InternetSearchTool"))
N_report == NormalizeName(DefaultName("ReportWritingTool"))
N_search_hyphens == StrReplace(N_search, "_", "-")
N_calculator == <<"c","a","l","c","u","l","a","t","o","r">>

ARG_X == PyStr(<<"X">>)
ARG_PADDED == PyStr(<<" ", "X", " ">>)
ARG_EMPTY == PyStr(<<>>)
ARG_LIST == PyList(<<PyStr(<<"X">>)>>)
ARG_DICT == PyDict(<<<<"q">>>>, <<PyStr(<<"X">>)>>)
ARG_INT == PyInt(<<"5">>)

\* Structured data that carries an action with a tool_name.
ActionValues ==
    { ActionObject(PyStr(FINAL_ANSWER), a) :
        a \in {ARG_X, ARG_PADDED, PyNone, ARG_LIST, ARG_DICT} }
    \cup { ActionNoArgument(PyStr(FINAL_ANSWER)), ActionNoArgument(PyStr(N_calculator)) }
    \cup { ActionObject(PyStr(N_search), a) : a \in {ARG_PADDED, ARG_LIST} }
    \cup { ActionObject(PyStr(N_report), a) : a \in {ARG_X, ARG_EMPTY, ARG_LIST} }
    \cup { ActionObject(PyStr(n), ARG_X) :
            n \in {DefaultName("InternetSearchTool"), N_search_hyphens, N_calculator} }
    \cup { ActionObject(t, ARG_X) : t \in {PyNone, ARG_LIST} }

\* Structured data without the nested action object and its tool_name.
NoActionValues ==
    { PyNone, ARG_INT, PyStr(<<"h","e","l","l","o">>), PyStr(K_action),
      PyList(<<ARG_INT>>), PyList(<<PyStr(K_action)>>),
      PyDict(<<>>, <<>>),
      PyDict(<<K_thought>>, <<THOUGHT>>),
      PyDict(<<K_action>>, <<PyNone>>),
      PyDict(<<K_action>>, <<PyStr(K_tool_name)>>),
      PyDict(<<K_action>>, <<PyDict(<<>>, <<>>)>>),
      PyDict(<<K_action>>, <<PyDict(<<K_argument>>, <<ARG_X>>)>>) }

PROSE == <<Tok("word", <<"H","e","r","e">>), T("ws"), Tok("word", <<"i","s">>), T("nl")>>

\* The text of a response of one form.  json: the data alone; json_padded:
\* the data between line breaks; fenced: prose, then the data in a fence whose
\* label is followed by a line break; fenced_escaped: the same with the two
\* characters backslash and n where the line breaks are; fenced_broken: an
\* escaped fence around text that is no JSON; prose: words only.
ResponseText(form, label, value) ==
    CASE form = "json" -> Dumps(value)
      [] form = "json_padded" -> <<T("nl")>> \o Dumps(value) \o <<T("nl"), T("ws")>>
      [] form = "fenced" ->
            PROSE \o <<T("fence"), Tok("word", label), T("nl")>> \o Dumps(value)
                  \o <<T("nl"), T("fence")>>
      [] form = "fenced_escaped" ->
            PROSE \o <<T("fence"), Tok("word", label), T("bsn"), T("ws")>> \o Dumps(value)
                  \o <<T("nl"), T("bsn"), T("fence")>>
      [] form = "fenced_broken" ->
            PROSE \o <<T("fence"), Tok("word", label), T("bsn")>> \o Dumps(value)
                  \o <<T("rbrace"), T("bsn"), T("fence")>>
      [] form = "prose" -> PROSE

Response(form, label, value) ==
    [text |-> PyText(ResponseText(form, label, value)), value |-> value, form |-> form,
     label |-> label]

L_JSON == <<"J","S","O","N">>
L_py == <<"p","y">>
FINAL_X == ActionObject(PyStr(FINAL_ANSWER), ARG_X)
SEARCH_X == ActionObject(PyStr(N_search), ARG_X)

Responses ==
    { Response("json", <<>>, v) : v \in ActionValues \cup NoActionValues }
    \cup { Response("json_padded", <<>>, ActionObject(PyStr(N_search), ARG_PADDED)),
           Response("fenced", K_json, FINAL_X),
           Response("fenced", L_JSON, SEARCH_X),
           Response("fenced_escaped", K_json, FINAL_X),
           Response("fenced_escaped", L_JSON, SEARCH_X),
           Response("fenced_escaped", L_py, FINAL_X),
           Response("fenced_broken", K_json, FINAL_X),
           Response("prose", <<>>, PyNone) }
    \* message.content is None
    \cup { [text |-> PyNone, value |-> PyNone, form |-> "none", label |-> <<>>] }

\* What the chat completion call does: return a response, or raise.
NoResponse == [text |-> PyNone, value |-> PyNone, form |-> "raise", label |-> <<>>]
BackendOutcomes ==
    { [exc |-> "none", msg |-> <<>>, kind |-> "ok", resp |-> r] : r \in Responses }
    \cup { [exc |-> "APIConnectionError", msg |-> <<"Connection error.">>, kind |-> "raise",
            resp |-> NoResponse] }

Tasks == { <<"Summarize topic X">> }

\* Two callers' tasks, and what the backend does in their runs.
TwoTasks == { <<"Summarize topic X">>, <<"Summarize topic Y">> }
TwoRunsOutcomes ==
    { o \in BackendOutcomes : o.kind = "raise" \/ o.resp.form = "prose" }
    \cup { [exc |-> "none", msg |-> <<>>, kind |-> "ok",
            resp |-> Response("json", <<>>, v)] : v \in {FINAL_X, SEARCH_X} }

\* max_iterations: int = Field(5, ...)
DefaultMaxIterations == 5

\* The responses of a research session: a search, a report on what the search
\* found, the report as the final answer; and a search under the hyphenated
\* spelling of the tool's name.
SessionResponses ==
    { Response("json", <<>>, v) :
        v \in { SEARCH_X,
                ActionObject(PyStr(N_report), internal_web_search(ARG_X)),
                ActionObject(PyStr(FINAL_ANSWER), PyStr(REPORT_TEXT)),
                ActionObject(PyStr(N_search_hyphens), ARG_X) } }

\* Tool lists a caller may construct the agent with: the two tools of main.py;
\* the same with a second search tool under a hyphenated name; tools named
\* in normalized and in mixed spelling.
ToolLists ==
    { AvailableTools,
      << AvailableTools[1],
         [name |-> N_search_hyphens, cls |-> "InternetSearchTool"],
         AvailableTools[2] >>,
      << [name |-> N_search, cls |-> "InternetSearchTool"],
         [name |-> <<"R","e","p","o","r","t","-","W","r","i","t","i","n","g"," ","T","o","o","l">>,
          cls |-> "ReportWritingTool"] >> }

----------------------------------------------------------------------------
\* The agent and its run

VARIABLES
    pc,              \* "new", "config_error", "idle", "iter", "act", "done"
    tools,           \* self.tools
    max_iterations,  \* self.max_iterations
    client,          \* whether self.client is set
    task,            \* run's argument
    messages,        \* run's transcript
    i,               \* the loop variable of run
    llm_output,      \* the response of the current iteration
    result,          \* how run ended: [kind, value]
    backendCalls,    \* history: chat completion calls made by this run
    toolCalls,       \* history: the tool runs of this run, in order
    sent,            \* history: what each chat completion call of this run did
    iters,           \* history: what each finished iteration of this run did
    given,           \* history: the tool constructor calls behind the tools
                     \* argument the agent's constructor received
    peer,            \* the locals of a second invocation of run, while it is
                     \* switched out
    gui              \* the window of gui.py: its widgets, result_queue, worker
                     \* threads and scheduled callbacks

vars == <<pc, tools, max_iterations, client, task, messages, i, llm_output, result,
          backendCalls, toolCalls, sent, iters, given, peer, gui>>

agentVars == <<tools, max_iterations, client>>

Pending == [kind |-> "pending", value |-> PyNone]
Returned(v) == [kind |-> "returned", value |-> v]
Raised(e) == [kind |-> "raised", value |-> PyStr(<<e>>)]

Sent(o) ==
    [kind |-> o.kind, value |-> o.resp.value, form |-> o.resp.form, label |-> o.resp.label]

\* The locals of an invocation of run that has not begun.
NotStarted ==
    [i |-> 0, llm_output |-> PyNone, pc |-> "idle", task |-> <<>>, messages |-> <<>>,
     result |-> Pending, backendCalls |-> 0, toolCalls |-> <<>>, sent |-> <<>>,
     iters |-> <<>>]

\* gui.py before AgentGUI is constructed.
NoWindow ==
    [shown |-> <<>>, phase |-> "new", button |-> "normal", status |-> "",
     queue |-> <<>>, workers |-> <<>>, polls |-> 0, main |-> "loop"]

Init ==
    /\ pc = "new"
    /\ tools = PyDict(<<>>, <<>>)
    /\ max_iterations = 0
    /\ client = FALSE
    /\ task = <<>>
    /\ messages = <<>>
    /\ i = 0
    /\ llm_output = PyNone
    /\ result = Pending
    /\ backendCalls = 0
    /\ toolCalls = <<>>
    /\ sent = <<>>
    /\ iters = <<>>
    /\ given = <<>>
    /\ peer = NotStarted
    /\ gui = NoWindow

\* A constructor that does not look at the client.
InitOutcome_unchecked(hasClient) == "idle"

\* if not self.client: raise ValueError(...) (lines 69-70): where the
\* constructor leaves its caller
InitOutcome(hasClient) == IF hasClient THEN "idle" ELSE "config_error"

\* ReActAgent(tools=[...]) with the tools of the constructor calls made, under
\* an environment with or without the API key: without it there is no client
\* and __init__ raises ValueError.
ConstructWith(made, apiKey, n) ==
    /\ pc = "new"
    /\ given' = made
    /\ tools' = BuildRegistry(NewTools(made, apiKey), PyDict(<<>>, <<>>))
    /\ max_iterations' = n
    /\ client' = apiKey
    /\ pc' = InitOutcome(apiKey)
    /\ UNCHANGED <<task, messages, i, llm_output, result, backendCalls, toolCalls,
                   sent, iters, peer, gui>>

\* ReActAgent(tools=available_tools), as main.py constructs it
Construct(apiKey, n) == ConstructWith(AvailableTools, apiKey, n)

\* A transcript kept from one call of run to the next.
InitialMessages_kept(registry, t) ==
    messages \o << Msg("system", PyStr(get_system_prompt(registry))),
                   Msg("user", PyStr(<<"The user's task is: ">> \o t)) >>

\* messages = [system prompt, task] (lines 122-126): a new list, local to
\* the call
InitialMessages(registry, t) ==
    << Msg("system", PyStr(get_system_prompt(registry))),
       Msg("user", PyStr(<<"The user's task is: ">> \o t)) >>

\* agent.run(t), up to the loop (lines 119-128)
RunStart(t) ==
    /\ pc \in {"idle", "done"}
    /\ task' = t
    /\ i' = 0
    /\ llm_output' = PyNone
    /\ backendCalls' = 0
    /\ toolCalls' = <<>>
    /\ sent' = <<>>
    /\ iters' = <<>>
    /\ IF ~client
       THEN /\ messages' = <<>>
            /\ result' = Returned(NO_CLIENT_MESSAGE)
            /\ pc' = "done"
       ELSE /\ messages' = InitialMessages(tools, t)
            /\ result' = Pending
            /\ pc' = "iter"
    /\ UNCHANGED <<agentVars, given, peer, gui>>

\* A transcript trimmed to the system message and the last two messages
\* before the observation is added.
Observe_windowed(msgs, appended) ==
    IF Len(msgs) > 3
    THEN <<msgs[1]>> \o SubSeq(msgs, Len(msgs) - 1, Len(msgs)) \o appended
    ELSE msgs \o appended

\* messages.append({"role": "user", "content": ...}) (lines 152, 182, 187)
Observe(msgs, appended) == msgs \o appended

\* The end of one iteration: the observation appended, then the next
\* iteration, the return, or the exception leaving run.
Finish(out) ==
    /\ messages' = Observe(messages, out.appended)
    /\ toolCalls' = toolCalls \o out.calls
    /\ iters' = Append(iters, [kind |-> out.kind, path |-> out.path,
                                appended |-> out.appended, calls |-> out.calls])
    /\ llm_output' = PyNone
    /\ CASE out.kind = "continue" ->
                /\ i' = i + 1
                /\ pc' = "iter"
                /\ result' = Pending
         [] out.kind = "return" ->
                /\ i' = i
                /\ pc' = "done"
                /\ result' = Returned(out.value)
         [] out.kind = "raise" ->
                /\ i' = i
                /\ pc' = "done"
                /\ result' = Raised(out.exc)

\* A loop over range(self.max_iterations + 1).
LoopRuns_inclusive(n, limit) == n <= limit

\* for i in range(self.max_iterations): whether the loop has an iteration i
LoopRuns(n, limit) == n < limit

\* A transcript that takes only the responses that parse to an action.
RecordResponse_ifParsed(msgs, text) ==
    IF text.ty = "str" /\ Truthy(extract_json_block(text).val)
    THEN Append(msgs, Msg("assistant", text))
    ELSE msgs

\* messages.append({"role": "assistant", "content": llm_output}) (line 144)
RecordResponse(msgs, text) == Append(msgs, Msg("assistant", text))

\* The reasoning step (lines 130-144): the call, and the response appended.
\* A call that raises ends the iteration in the handler of lines 184-188.
Reason(o) ==
    /\ pc = "iter"
    /\ LoopRuns(i, max_iterations)
    /\ backendCalls' = backendCalls + 1
    /\ sent' = Append(sent, Sent(o))
    /\ IF o.kind = "ok"
       THEN /\ llm_output' = o.resp.text
            /\ messages' = RecordResponse(messages, o.resp.text)
            /\ pc' = "act"
            /\ UNCHANGED <<i, result, toolCalls, iters>>
       ELSE Finish(IterationError(Raise(o.exc, o.msg), "backend_error", <<>>))
    /\ UNCHANGED <<agentVars, task, given, peer, gui>>

\* The rest of the iteration (lines 147-188): parse, act, observe.
Act(build, backend) ==
    /\ pc = "act"
    /\ Finish(ActOn(tools, llm_output, build, backend))
    /\ UNCHANGED <<agentVars, task, backendCalls, sent, given, peer, gui>>

\* The loop ran out (lines 190-191).
Exhausted ==
    /\ pc = "iter"
    /\ ~LoopRuns(i, max_iterations)
    /\ result' = Returned(BUDGET_MESSAGE)
    /\ pc' = "done"
    /\ UNCHANGED <<agentVars, task, messages, i, llm_output, backendCalls, toolCalls,
                   sent, iters, given, peer, gui>>

Next ==
    \/ \E apiKey \in BOOLEAN, n \in 0..MaxIterations : Construct(apiKey, n)
    \/ \E t \in Tasks : RunStart(t)
    \/ \E o \in BackendOutcomes : Reason(o)
    \/ \E build \in Builds, backend \in ReportBackendOutcomes : Act(build, backend)
    \/ Exhausted

Spec == Init /\ [][Next]_vars

\* A call of run holds its locals (task, messages, i, ...) in its own frame.
\* A local of the call that is switched in: the value its frame saved.
Resumed_shared(saved, live) == live

Resumed(saved, live) == saved

\* Two calls of run on the same agent, from two threads: the thread that is
\* running is switched out and the other one switched in, at any point
\* between two steps.  The agent's fields are shared.
Switch ==
    /\ pc \in {"idle", "iter", "act", "done"}
    /\ peer' = [i |-> i, llm_output |-> llm_output, pc |-> pc, task |-> task,
                messages |-> messages, result |-> result,
                backendCalls |-> backendCalls, toolCalls |-> toolCalls,
                sent |-> sent, iters |-> iters]
    /\ pc' = peer.pc
    /\ task' = peer.task
    /\ messages' = Resumed(peer.messages, messages)
    /\ i' = peer.i
    /\ llm_output' = peer.llm_output
    /\ result' = peer.result
    /\ backendCalls' = peer.backendCalls
    /\ toolCalls' = peer.toolCalls
    /\ sent' = peer.sent
    /\ iters' = peer.iters
    /\ UNCHANGED <<agentVars, given, gui>>

TwoRunsNext ==
    \/ \E apiKey \in BOOLEAN, n \in 1..MaxIterations : Construct(apiKey, n)
    \/ \E t \in TwoTasks : RunStart(t)
    \/ \E o \in TwoRunsOutcomes : Reason(o)
    \/ \E build \in Builds, backend \in ReportBackendOutcomes : Act(build, backend)
    \/ Exhausted
    \/ Switch

TwoRunsSpec == Init /\ [][TwoRunsNext]_vars

\* A research session of an agent with the default budget, constructed with
\* any of the tool lists.
SessionNext ==
    \/ \E made \in ToolLists, apiKey \in BOOLEAN :
           ConstructWith(made, apiKey, DefaultMaxIterations)
    \/ \E t \in Tasks : RunStart(t)
    \/ \E r \in SessionResponses :
           Reason([exc |-> "none", msg |-> <<>>, kind |-> "ok", resp |-> r])
    \/ \E build \in Builds, backend \in ReportBackendOutcomes : Act(build, backend)
    \/ Exhausted

SessionSpec == Init /\ [][SessionNext]_vars

\* run is sequential code on one thread: while it is inside the loop (lines
\* 130-188) it executes its next statement once the backend call or the tool
\* it waits for has come back, so its position (pc, i) advances.  Every step of
\* Reason, Act and Exhausted changes the position, and nothing else does while
\* run is inside the loop.
Advance ==
    /\ pc \in {"iter", "act"}
    /\ pc' \in {"iter", "act", "done"}
    /\ i' \in {i, i + 1}

FairSpec == Spec /\ WF_<<pc, i>>(Advance)

----------------------------------------------------------------------------
\* The window of gui.py.  The Tk main thread runs AgentGUI.__init__, the
\* button's command start_agent_thread and the timer callback check_queue,
\* one at a time; each press of the button starts a worker thread that runs
\* run_agent_task.  The threads share result_queue and the thread object that
\* is_alive() asks.  A worker is [pc, task, puts]; a queued message carries
\* the number of the worker that put it.

\* What agent.run hands to run_agent_task: the report or the budget message
\* returned, a final answer that is a list returned as it is (line 164 of
\* agent.py), or an exception that leaves run (the prints of lines 131-132
\* are outside the try).
GuiRunResults ==
    { Returned(PyStr(REPORT_TEXT)), Returned(BUDGET_MESSAGE), Returned(ARG_LIST),
      Raised("OSError") }

\* What the user has typed when the button is pressed, stripped.
Prompts == Tasks \cup { <<>> }

\* The steps of the window leave the agent and the locals of run alone.
WindowStep ==
    UNCHANGED <<task, messages, i, llm_output, result, backendCalls, toolCalls,
                sent, iters, peer>>

\* AgentGUI.__init__ (lines 20-93) with initialize_agent (lines 95-107):
\* without the API key the button is disabled and no agent is made.
AgentGUI_init(apiKey) ==
    /\ gui.phase = "new" /\ pc = "new"
    /\ IF apiKey
       THEN /\ given' = AvailableTools
            /\ tools' = BuildRegistry(NewTools(AvailableTools, apiKey), PyDict(<<>>, <<>>))
            /\ max_iterations' = DefaultMaxIterations
            /\ client' = apiKey
            /\ pc' = InitOutcome(apiKey)
            /\ gui' = [gui EXCEPT !.phase = "ready",
                                  !.status = "Agent initialized. Ready."]
       ELSE /\ UNCHANGED <<given, agentVars, pc>>
            /\ gui' = [gui EXCEPT !.phase = "ready", !.button = "disabled",
                                  !.status = "Error: OPENAI_API_KEY not set!"]
    /\ WindowStep

\* threading.Thread.is_alive() of worker w
IsAlive(w) == gui.workers[w].pc # "dead"

\* start_agent_thread (lines 109-131), the command of the start button: Tk
\* runs it only while the button is enabled.
start_agent_thread(prompt) ==
    /\ gui.phase = "ready" /\ gui.main = "loop" /\ gui.button = "normal"
    /\ Len(gui.workers) < MaxRuns
    /\ IF prompt = <<>> \/ pc # "idle"
       THEN UNCHANGED gui
       ELSE gui' = [gui EXCEPT !.button = "disabled",
                               !.shown = <<>>,
                               !.status = "Agent running...",
                               !.workers = Append(@, [pc |-> "run", task |-> prompt,
                                                      puts |-> 0]),
                               !.polls = @ + 1]
    /\ UNCHANGED <<pc, agentVars, given>>
    /\ WindowStep

\* The message run_agent_task puts (lines 136, 139-140).
QueuedMessage(res) ==
    IF res.kind = "returned" THEN res.value
    ELSE PyStr(<<"Error during agent execution: ">> \o res.value.s)

\* run_agent_task (lines 133-142) in worker w: agent.run has ended in res
\* and the message is put.
run_agent_task(w, res) ==
    /\ w \in DOMAIN gui.workers
    /\ gui.workers[w].pc = "run"
    /\ gui' = [gui EXCEPT !.workers[w].pc = "exiting",
                          !.workers[w].puts = @ + 1,
                          !.queue = Append(@, [value |-> QueuedMessage(res), run |-> w])]
    /\ UNCHANGED <<pc, agentVars, given>>
    /\ WindowStep

\* Worker w's thread ends after run_agent_task has returned.
ThreadExit(w) ==
    /\ w \in DOMAIN gui.workers
    /\ gui.workers[w].pc = "exiting"
    /\ gui' = [gui EXCEPT !.workers[w].pc = "dead"]
    /\ UNCHANGED <<pc, agentVars, given>>
    /\ WindowStep

\* Lines 187-198 and 206-210: the message taken from the queue is shown if
\* insert_formatted_text can split it; for a message that is no str,
\* text.split raises and the handler of line 206 reports it.  Both re-enable
\* the button.
Taken(g, message) ==
    IF message.value.ty = "str"
    THEN [g EXCEPT !.queue = Tail(@), !.polls = @ - 1,
                   !.shown = Append(@, message),
                   !.status = "Agent finished.",
                   !.button = "normal"]
    ELSE [g EXCEPT !.queue = Tail(@), !.polls = @ - 1,
                   !.status = "GUI Update Error",
                   !.button = "normal"]

\* check_queue (lines 184-198), a timer callback on the main thread:
\* get_nowait() returns a message, or raises queue.Empty.
check_queue ==
    /\ gui.polls > 0 /\ gui.main = "loop"
    /\ IF gui.queue # <<>>
       THEN gui' = Taken(gui, Head(gui.queue))
       ELSE gui' = [gui EXCEPT !.polls = @ - 1, !.main = "empty"]
    /\ UNCHANGED <<pc, agentVars, given>>
    /\ WindowStep

\* A callback that gives up polling while the worker is alive.
AfterEmpty_once(g, alive) ==
    IF alive
    THEN [g EXCEPT !.main = "loop"]
    ELSE [g EXCEPT !.main = "loop",
                   !.status = "Agent finished (unexpectedly?). Ready.",
                   !.button = "normal"]

\* Lines 201-205: the callback scheduled again while the thread is alive,
\* the button re-enabled when it is not.
AfterEmpty(g, alive) ==
    IF alive
    THEN [g EXCEPT !.main = "loop", !.polls = @ + 1]
    ELSE [g EXCEPT !.main = "loop",
                   !.status = "Agent finished (unexpectedly?). Ready.",
                   !.button = "normal"]

\* except queue.Empty (lines 200-205): self.agent_thread, the thread started
\* last, is asked whether it is alive.
QueueEmpty ==
    /\ gui.main = "empty"
    /\ gui' = AfterEmpty(gui, IsAlive(Len(gui.workers)))
    /\ UNCHANGED <<pc, agentVars, given>>
    /\ WindowStep

GuiNext ==
    \/ \E apiKey \in BOOLEAN : AgentGUI_init(apiKey)
    \/ \E prompt \in Prompts : start_agent_thread(prompt)
    \/ \E w \in 1..MaxRuns, res \in GuiRunResults : run_agent_task(w, res)
    \/ \E w \in 1..MaxRuns : ThreadExit(w)
    \/ check_queue
    \/ QueueEmpty

GuiSpec == Init /\ [][GuiNext]_vars

\* A worker thread that has been started is scheduled, and agent.run comes
\* back in it; the Tk main loop runs a callback once its timer is due.
WorkerStep == \E w \in 1..MaxRuns, res \in GuiRunResults : run_agent_task(w, res)
WorkerEnd == \E w \in 1..MaxRuns : ThreadExit(w)
TimerStep == check_queue \/ QueueEmpty

GuiFairSpec ==
    GuiSpec /\ WF_gui(WorkerStep) /\ WF_gui(WorkerEnd) /\ WF_gui(TimerStep)

----------------------------------------------------------------------------
\* The vocabulary of the properties: what a response carries, by the schema
\* of the system prompt (lines 92-101), read off the data the response was
\* written from.

Field(d, key) == d.vs[CHOOSE n \in DOMAIN d.ks : d.ks[n] = key]

\* The data holds the nested action object with a tool_name field.
IsAction(v) ==
    /\ v.ty = "dict"
    /\ K_action \in Range(v.ks)
    /\ Field(v, K_action).ty = "dict"
    /\ K_tool_name \in Range(Field(v, K_action).ks)

ToolNameOf(v) == Field(Field(v, K_action), K_tool_name)
HasArgument(v) == K_argument \in Range(Field(v, K_action).ks)
\* The argument field, None when it is absent.
ArgumentOf(v) == IF HasArgument(v) THEN Field(Field(v, K_action), K_argument) ELSE PyNone

\* The whole text of the response is valid structured data.
WellFormed(snt) == snt.kind = "ok" /\ snt.form \in {"json", "json_padded"}

\* The response is a well-formed action naming the tool identifier name.
NamesTool(snt, name) ==
    WellFormed(snt) /\ IsAction(snt.value) /\ ToolNameOf(snt.value) = PyStr(name)

\* A well-formed action with a str identifier and a str argument.
StringAction(snt) ==
    /\ WellFormed(snt) /\ IsAction(snt.value)
    /\ ToolNameOf(snt.value).ty = "str"
    /\ ArgumentOf(snt.value).ty = "str"

\* The response carries the terminal sentinel, in whatever form.
CarriesFinal(snt) ==
    snt.kind = "ok" /\ IsAction(snt.value) /\ ToolNameOf(snt.value) = PyStr(FINAL_ANSWER)

IsObservation(m) ==
    /\ m.role = "user"
    /\ m.content.ty = "str"
    /\ m.content.s # <<>>
    /\ m.content.s[1] = "Observation: "

\* The iteration appended exactly one observation, which holds the text.
ObservedText(it, text) ==
    /\ Len(it.appended) = 1
    /\ IsObservation(it.appended[1])
    /\ IsSubstring(text, it.appended[1].content.s)

\* The observation of iteration k, if it appended one, is message number at
\* of the transcript.
ObservationAt(k, at) ==
    iters[k].appended # <<>> => messages[at] = iters[k].appended[1]

\* Iteration k went on to the next one: as the last finished iteration, the
\* loop stands at iteration k + 1 with the observation at the end of the
\* transcript, or is in iteration k + 1 with the next response after the
\* observation, or has found the budget used up.
WentOn(k) ==
    /\ iters[k].kind = "continue"
    /\ k = Len(iters) =>
         /\ i = k
         /\ \/ /\ pc = "iter" /\ result = Pending /\ Len(sent) = k
               /\ ObservationAt(k, Len(messages))
            \/ /\ pc = "act" /\ result = Pending /\ Len(sent) = k + 1
               /\ ObservationAt(k, Len(messages) - 1)
            \/ /\ pc = "done" /\ result = Returned(BUDGET_MESSAGE) /\ i = max_iterations
               /\ ObservationAt(k, Len(messages))

Finished == 1..Len(iters)

----------------------------------------------------------------------------
\* C1: when a well-formed action names final_answer, run returns that
\* action's argument (None when the field is absent) as its result, and the
\* iteration that received the action is the last one of the run.
C1_FinalAnswerReturnsArgument ==
    \A k \in Finished :
        NamesTool(sent[k], FINAL_ANSWER) =>
            /\ iters[k].kind = "return"
            /\ k = Len(iters)
            /\ pc = "done"
            /\ result = Returned(ArgumentOf(sent[k].value))

\* C2: a run makes at most max_iterations backend calls, one per iteration;
\* a run that ends without any response carrying final_answer has made
\* exactly max_iterations calls and returns the budget message, and the budget
\* message is returned only after max_iterations calls; every run that has
\* started ends.
C2_Budget ==
    /\ backendCalls <= max_iterations
    /\ backendCalls = Len(sent)
    /\ pc = "iter" => i = backendCalls /\ Len(iters) = i
    /\ pc = "act" => backendCalls = i + 1 /\ Len(iters) = i
    /\ (pc = "done" /\ result = Returned(BUDGET_MESSAGE)) =>
           backendCalls = max_iterations /\ Len(iters) = max_iterations
    /\ (pc = "done" /\ client /\ \A k \in DOMAIN sent : ~CarriesFinal(sent[k])) =>
           result = Returned(BUDGET_MESSAGE)

C2_BudgetExhausted ==
    /\ []C2_Budget
    /\ [](pc \in {"iter", "act"} => <>(pc = "done"))

\* A run of the full budget in which a backend call failed and a response
\* could not be parsed ends with the budget message.
C2_Witness ==
    /\ pc = "done"
    /\ result = Returned(BUDGET_MESSAGE)
    /\ max_iterations = MaxIterations
    /\ backendCalls = MaxIterations
    /\ \E k \in DOMAIN sent : sent[k].kind = "raise"
    /\ \E k \in DOMAIN sent : sent[k].kind = "ok" /\ sent[k].form = "prose"

\* C3: whenever run has ended it has returned, and what it returned is a
\* string.
C3_RunReturnsString ==
    pc = "done" => result.kind = "returned" /\ result.value.ty = "str"

\* C4: when the run of a selected tool raises, nothing leaves run: the
\* iteration appends one observation holding the exception's text, and the
\* loop goes on to the next iteration.
C4_ToolExceptionObserved ==
    /\ result.kind # "raised"
    /\ \A k \in Finished :
           \A n \in DOMAIN iters[k].calls :
               iters[k].calls[n].out.exc # "none" =>
                   /\ ObservedText(iters[k], iters[k].calls[n].out.msg)
                   /\ WentOn(k)

\* A tool's run raised in one iteration and the next iteration has run too.
C4_Witness ==
    \E k \in Finished :
        /\ k < Len(iters)
        /\ \E n \in DOMAIN iters[k].calls :
               /\ iters[k].calls[n].out.exc = "AttributeError"
               /\ ObservedText(iters[k], iters[k].calls[n].out.msg)

\* C5: when a well-formed action names, by a string, a tool that is neither
\* final_answer nor a key of the registry, no tool runs, and the iteration
\* appends the tool-not-found observation, which lists every registered
\* identifier; the loop goes on.
C5_UnknownToolObserved ==
    \A k \in Finished :
        ( /\ WellFormed(sent[k]) /\ IsAction(sent[k].value)
          /\ ToolNameOf(sent[k].value).ty = "str"
          /\ ToolNameOf(sent[k].value).s # FINAL_ANSWER
          /\ ToolNameOf(sent[k].value).s \notin Range(tools.ks) ) =>
            /\ iters[k].calls = <<>>
            /\ ObservedText(iters[k], <<"' not found. Available tools are: ">>)
            /\ \A n \in DOMAIN tools.ks : ObservedText(iters[k], tools.ks[n])
            /\ WentOn(k)

\* C6: when the backend call of an iteration raises, nothing leaves run: no
\* tool runs in that iteration, one observation holding the error's text is
\* appended, and the loop goes on to the next iteration.
C6_BackendFailureObserved ==
    /\ result.kind # "raised"
    /\ \A k \in DOMAIN sent :
           sent[k].kind = "raise" =>
               /\ k \in Finished
               /\ iters[k].calls = <<>>
               /\ ObservedText(iters[k], <<"Connection error.">>)
               /\ WentOn(k)

\* A backend call failed and a later call of the same run was made.
C6_Witness ==
    \E k \in DOMAIN sent :
        /\ sent[k].kind = "raise"
        /\ k < Len(sent)
        /\ k \in Finished
        /\ ObservedText(iters[k], <<"Connection error.">>)

\* C7: when the whole response is valid structured data without the nested
\* action object and its tool_name field, the iteration runs no tool and
\* appends the corrective observation about the expected format; the loop
\* goes on.
C7_MalformedObserved ==
    \A k \in Finished :
        (WellFormed(sent[k]) /\ ~IsAction(sent[k].value)) =>
            /\ iters[k].calls = <<>>
            /\ iters[k].appended = <<ObservationMsg(PARSE_FAILURE_TEXT)>>
            /\ WentOn(k)

\* C8: from a response that is prose around a fenced block labelled json (in
\* any letter case) and holding valid structured data between line breaks,
\* extract_json_block returns that data.
C8_FencedBlockExtracted ==
    (/\ pc = "act"
     /\ sent[Len(sent)].form = "fenced"
     /\ StrLower(sent[Len(sent)].label) = K_json) =>
        extract_json_block(llm_output) = Ret(sent[Len(sent)].value)

\* C9: the identifier and the argument of a well-formed action with a str
\* identifier and a str argument reach the agent unchanged: the parser returns
\* the data as written, final_answer returns exactly the argument, a
\* registered tool is run with exactly the argument, and an unregistered name
\* is reported exactly as given.
C9_ActionPassedUnchanged ==
    /\ (pc = "act" /\ WellFormed(sent[Len(sent)])) =>
           extract_json_block(llm_output) = Ret(sent[Len(sent)].value)
    /\ \A k \in Finished :
           StringAction(sent[k]) =>
               IF ToolNameOf(sent[k].value).s = FINAL_ANSWER
               THEN /\ iters[k].kind = "return"
                    /\ result = Returned(ArgumentOf(sent[k].value))
               ELSE IF ToolNameOf(sent[k].value).s \in Range(tools.ks)
               THEN /\ Len(iters[k].calls) = 1
                    /\ iters[k].calls[1].name = ToolNameOf(sent[k].value).s
                    /\ iters[k].calls[1].argument = ArgumentOf(sent[k].value)
               ELSE /\ iters[k].calls = <<>>
                    /\ ObservedText(iters[k],
                                    <<"Error: Tool '">> \o ToolNameOf(sent[k].value).s
                                    \o <<"' not found. Available tools are: ">>)

\* A tool has run with an argument that begins and ends with blanks, and the
\* run has then returned such an argument as the final answer.
C9_Witness ==
    /\ pc = "done"
    /\ result = Returned(ARG_PADDED)
    /\ \E k \in Finished :
           /\ StringAction(sent[k])
           /\ Len(iters[k].calls) = 1
           /\ iters[k].calls[1].argument = ARG_PADDED

C11_NormalizationIdempotent ==
    /\ \A k \in DOMAIN given :
           /\ NormalizeName(NormalizeName(given[k].name)) = NormalizeName(given[k].name)
           /\ NormalizeName(given[k].name) \in Range(tools.ks)
           /\ given[k].name = <<"I","n","t","e","r","n","e","t"," ","S","e","a","r","c","h"," ","T","o","o","l">>
                => NormalizeName(given[k].name)
                     = <<"i","n","t","e","r","n","e","t","_","s","e","a","r","c","h","_","t","o","o","l">>
    /\ \A k \in DOMAIN tools.ks :
           /\ NormalizeName(tools.ks[k]) = tools.ks[k]
           /\ tools.vs[k].name = tools.ks[k]
    /\ \A k \in DOMAIN sent :
           StringAction(sent[k]) =>
               NormalizeName(NormalizeName(ToolNameOf(sent[k].value).s))
                   = NormalizeName(ToolNameOf(sent[k].value).s)

\* An agent was constructed with tools named in display spelling, with
\* hyphens and with a hyphen and a space, and 'internet_search_tool' is a key.
C11_Witness ==
    /\ \E k \in DOMAIN given :
           given[k].name = <<"I","n","t","e","r","n","e","t"," ","S","e","a","r","c","h"," ","T","o","o","l">>
    /\ \E k \in DOMAIN given : given[k].name = N_search_hyphens
    /\ <<"i","n","t","e","r","n","e","t","_","s","e","a","r","c","h","_","t","o","o","l">>
           \in Range(tools.ks)
    /\ \E k \in DOMAIN sent : StringAction(sent[k])

\* C12: an agent whose tool list holds two tools with the same normalized
\* name is not constructed (the constructor raises), and a constructed agent's
\* registry has as many entries as tools were passed, each tool stored under
\* its name.
C12_DuplicatesRejected ==
    pc \notin {"new", "config_error"} =>
        /\ \A k, m \in DOMAIN given :
               NormalizeName(given[k].name) = NormalizeName(given[m].name) => k = m
        /\ Len(tools.ks) = Len(given)
        /\ \A k \in DOMAIN given :
               \E m \in DOMAIN tools.ks :
                   /\ tools.ks[m] = NormalizeName(given[k].name)
                   /\ tools.vs[m].cls = given[k].cls

C14_ToolRunReturnsString ==
    \A n \in DOMAIN toolCalls :
        /\ toolCalls[n].out.exc = "none"
        /\ toolCalls[n].out.val.ty = "str"

\* The first responses of the run were, in order, the search tool with
\* argument X, the report tool with the text the search returns, and
\* final_answer with the report text.
SessionSent(n) ==
    /\ Len(sent) >= n
    /\ \A k \in 1..n :
           /\ WellFormed(sent[k])
           /\ sent[k].value =
                 CASE k = 1 -> ActionObject(PyStr(N_search), PyStr(<<"X">>))
                   [] k = 2 -> ActionObject(PyStr(N_report),
                                            PyStr(SearchResultText(<<"X">>)))
                   [] k = 3 -> ActionObject(PyStr(FINAL_ANSWER), PyStr(REPORT_TEXT))

\* C15: in a run whose responses are the search for X, the report on the
\* search result and final_answer with the report text, the search has
\* run on X and its result is message 4 of the transcript, an observation,
\* when the second call is made (its response is message 5); and once the
\* third response is acted on, the run has ended returning exactly the report
\* text after exactly 3 backend calls and exactly 2 tool runs, the search and
\* then the report tool on the search result.
C15_EndToEnd ==
    /\ SessionSent(2) =>
           /\ Len(messages) >= 5
           /\ messages[3].role = "assistant"
           /\ messages[4] = ObservationMsg(SearchResultText(<<"X">>))
           /\ messages[5].role = "assistant"
           /\ iters[1].calls # <<>>
           /\ iters[1].calls[1].cls = "InternetSearchTool"
           /\ iters[1].calls[1].argument = PyStr(<<"X">>)
    /\ (SessionSent(3) /\ Len(iters) >= 3) =>
           /\ pc = "done"
           /\ result = Returned(PyStr(REPORT_TEXT))
           /\ backendCalls = 3
           /\ Len(iters) = 3
           /\ Len(toolCalls) = 2
           /\ toolCalls[1].cls = "InternetSearchTool"
           /\ toolCalls[2].cls = "ReportWritingTool"
           /\ toolCalls[2].argument = PyStr(SearchResultText(<<"X">>))
           /\ Len(messages) = 7

\* The session has ended with the report the report tool generated.
C15_Witness ==
    /\ SessionSent(3)
    /\ pc = "done"
    /\ Len(toolCalls) = 2
    /\ toolCalls[2].out = Ret(PyStr(REPORT_TEXT))
    /\ result = Returned(PyStr(REPORT_TEXT))

\* The locals of the call of run that is switched in, as a frame.
Current ==
    [i |-> i, llm_output |-> llm_output, pc |-> pc, task |-> task,
     messages |-> messages, result |-> result, backendCalls |-> backendCalls,
     toolCalls |-> toolCalls, sent |-> sent, iters |-> iters]

\* The text of a response the backend returned.
ResponseTextOf(snt) ==
    IF snt.form = "none" THEN PyNone ELSE Response(snt.form, snt.label, snt.value).text

\* The transcript that a run's own task, own responses and own observations
\* make: the system prompt and the task, then for each backend call the
\* response it returned, if any, and what the iteration appended.
RECURSIVE OwnTranscript(_, _, _)
OwnTranscript(tsk, snt, its) ==
    IF snt = <<>>
    THEN << [content |-> PyStr(get_system_prompt(tools)), role |-> "system"],
            [content |-> PyStr(<<"The user's task is: ">> \o tsk), role |-> "user"] >>
    ELSE OwnTranscript(tsk, SubSeq(snt, 1, Len(snt) - 1),
                       SubSeq(its, 1, IF Len(its) < Len(snt) THEN Len(its)
                                      ELSE Len(snt) - 1))
            \o (IF snt[Len(snt)].kind = "ok"
                THEN <<[content |-> ResponseTextOf(snt[Len(snt)]), role |-> "assistant"]>>
                ELSE <<>>)
            \o (IF Len(its) = Len(snt) THEN its[Len(its)].appended ELSE <<>>)

\* The transcript of the frame is made of the frame's own run only.
FrameOwn(f) ==
    f.pc \in {"iter", "act", "done"} =>
        f.messages = OwnTranscript(f.task, f.sent, f.iters)

\* The result of the frame's run is given by the frame's own run: the argument
\* of the response its last iteration returned on, else the budget message.
ResultOwn(f) ==
    f.pc = "done" =>
        IF f.iters # <<>> /\ f.iters[Len(f.iters)].kind = "return"
        THEN f.result = Returned(ArgumentOf(f.sent[Len(f.sent)].value))
        ELSE f.result = Returned(BUDGET_MESSAGE)

\* C16: nothing persists from one call of run to another and no run writes
\* the agent.  Once the agent is constructed its tools mapping, budget and
\* client never change; a call of run begins with a transcript of exactly two
\* messages, the system prompt and its own task, and with no backend call,
\* tool run or iteration to its name; and at every moment the transcript and
\* the result of each call, the one running and the one switched out, are
\* those its own task, responses and observations give.
C16_NothingPersists ==
    /\ [](client => /\ FrameOwn(Current) /\ ResultOwn(Current)
                    /\ FrameOwn(peer) /\ ResultOwn(peer))
    /\ [][ /\ pc # "new" => UNCHANGED <<tools, max_iterations, client>>
           /\ (pc \in {"idle", "done"} /\ pc' = "iter" /\ peer' = peer) =>
                  /\ Len(messages') = 2
                  /\ messages'[1].role = "system"
                  /\ messages'[2] = [content |-> PyStr(<<"The user's task is: ">> \o task'),
                                     role |-> "user"]
                  /\ i' = 0 /\ backendCalls' = 0
                  /\ toolCalls' = <<>> /\ sent' = <<>> /\ iters' = <<>>
         ]_vars

\* Two runs of the same agent have ended, with different histories and
\* different results.
C16_Witness ==
    /\ pc = "done" /\ peer.pc = "done"
    /\ iters # <<>> /\ peer.iters # <<>>
    /\ toolCalls # <<>> /\ peer.toolCalls = <<>>
    /\ result = Returned(BUDGET_MESSAGE)
    /\ peer.result = Returned(PyStr(<<"X">>))
    /\ Len(messages) # Len(peer.messages)

\* C17: when two calls of run on the same agent are interleaved, the message
\* list each has (and so each list it sends to the backend) holds exactly the
\* messages of its own run, its own task's among them, and no step of either
\* writes the registry.
C17_RunsOwnTranscripts ==
    /\ [](client =>
            /\ FrameOwn(Current)
            /\ FrameOwn(peer)
            /\ \A f \in {Current, peer} :
                   f.pc \in {"iter", "act"} =>
                       /\ f.messages[2].content.s = <<"The user's task is: ">> \o f.task
                       /\ Len(f.messages) = 2 + Len(f.iters)
                              + Cardinality({k \in DOMAIN f.sent : f.sent[k].kind = "ok"}))
    /\ [][pc # "new" => tools' = tools]_vars

\* Both calls are inside the loop, past their first iteration, on different
\* tasks and with different transcripts.
C17_Witness ==
    /\ pc = "act" /\ peer.pc \in {"iter", "act"}
    /\ i >= 1 /\ peer.i >= 1
    /\ task # peer.task
    /\ iters # peer.iters
    /\ messages # peer.messages

\* C18: every response the backend returns is in the transcript as an
\* assistant message, whether or not it parses.  When the response is about
\* to be parsed it is the last message; when its iteration has finished it
\* stands right before what the iteration appended, also after a parse
\* failure or an error; and the transcript has one assistant message for each
\* response returned.
C18_RawResponseRecorded ==
    /\ pc = "act" =>
           /\ sent[Len(sent)].kind = "ok"
           /\ llm_output = ResponseTextOf(sent[Len(sent)])
           /\ messages[Len(messages)] = [content |-> llm_output, role |-> "assistant"]
    /\ (iters # <<>> /\ Len(sent) = Len(iters) /\ sent[Len(sent)].kind = "ok") =>
           messages[Len(messages) - Len(iters[Len(iters)].appended)]
               = [content |-> ResponseTextOf(sent[Len(sent)]), role |-> "assistant"]
    /\ Cardinality({n \in DOMAIN messages : messages[n].role = "assistant"})
           = Cardinality({k \in DOMAIN sent : sent[k].kind = "ok"})

\* A response without content ended its iteration in an error and a response
\* in prose ended the next one in a parse failure; both are in the transcript.
C18_Witness ==
    /\ Len(sent) = 2 /\ Len(iters) = 2
    /\ sent[1].kind = "ok" /\ sent[1].form = "none"
    /\ sent[2].kind = "ok" /\ sent[2].form = "prose"
    /\ iters[2].appended = <<ObservationMsg(PARSE_FAILURE_TEXT)>>
    /\ messages[3] = [content |-> PyNone, role |-> "assistant"]
    /\ messages[5] = [content |-> ResponseTextOf(sent[2]), role |-> "assistant"]

\* The response text is no valid structured data and holds no fenced block
\* labelled json with valid content: prose, a block whose content is not
\* valid, or a block under another label.
Unparseable(snt) ==
    /\ snt.kind = "ok"
    /\ \/ snt.form \in {"prose", "fenced_broken"}
       \/ snt.form \in {"fenced", "fenced_escaped"} /\ StrLower(snt.label) # K_json

\* C19: an iteration whose response cannot be parsed runs no tool, appends
\* exactly one message, the corrective observation that asks for the JSON
\* structure, uses up exactly one iteration of the budget, and the loop goes
\* on.
C19_ParseFailureObserved ==
    \A k \in Finished :
        Unparseable(sent[k]) =>
            /\ iters[k].calls = <<>>
            /\ iters[k].appended =
                  << [content |-> PyStr(<<"Observation: ">> \o PARSE_FAILURE_TEXT),
                      role |-> "user"] >>
            /\ WentOn(k)
            /\ k = Len(iters) => (i = k /\ backendCalls \in {k, k + 1})

\* Prose and then a fenced block with invalid content each ended an iteration
\* in the corrective observation.
C19_Witness ==
    /\ Len(iters) = 2 /\ pc = "iter"
    /\ sent[1].form = "prose" /\ sent[2].form = "fenced_broken"
    /\ \A k \in 1..2 :
           /\ iters[k].calls = <<>>
           /\ ObservedText(iters[k], PARSE_FAILURE_TEXT)
    /\ Len(messages) = 6

\* The number of the run's backend calls so far that returned a response.
Answered == Cardinality({k \in DOMAIN sent : sent[k].kind = "ok"})

\* The number of finished iterations after which the loop went on.
GoneOn == Cardinality({k \in Finished : iters[k].kind = "continue"})

\* C20: every iteration that does not end the run appended exactly one
\* observation, a user message whose content starts with 'Observation: ', on
\* every path; an iteration that ends the run appended none; no iteration ran
\* more than one tool; and the transcript holds nothing but the two initial
\* messages, the responses and these observations.
C20_OneObservationPerIteration ==
    /\ \A k \in Finished :
           /\ iters[k].kind = "continue" =>
                 /\ Len(iters[k].appended) = 1
                 /\ IsObservation(iters[k].appended[1])
           /\ iters[k].kind # "continue" => iters[k].appended = <<>>
           /\ Len(iters[k].calls) <= 1
    /\ Len(toolCalls) <= Len(iters)
    /\ pc \in {"iter", "act", "done"} /\ client =>
           /\ Len(messages) = 2 + Answered + GoneOn
           /\ \A n \in 3..Len(messages) :
                  messages[n].role = "assistant" \/ IsObservation(messages[n])

\* A run whose first iteration ran one tool and left one observation and
\* whose second iteration ended the run on a final answer and left none.
C20_Witness ==
    /\ pc = "done" /\ Len(iters) = 2 /\ result.kind = "returned"
    /\ iters[1].kind = "continue" /\ Len(iters[1].calls) = 1
    /\ Len(iters[1].appended) = 1 /\ IsObservation(iters[1].appended[1])
    /\ iters[2].kind = "return" /\ iters[2].appended = <<>>
    /\ Len(toolCalls) = 1
    /\ Len(messages) = 5 /\ messages[4] = iters[1].appended[1]

\* Sequence a is an initial part of sequence b.
IsPrefix(a, b) == Len(a) <= Len(b) /\ SubSeq(b, 1, Len(a)) = a

\* A step of a run keeps the transcript it found as a prefix of the one it
\* leaves, with the same first message.
AppendOnlyStep ==
    pc \in {"iter", "act"} =>
        (IsPrefix(messages, messages') /\ messages'[1] = messages[1])

\* C21: within one run the transcript only grows at its end: every step of a
\* run leaves the earlier transcript as a prefix of the later one, and the
\* first message is, from the start of the run to its end, the system prompt
\* built from the agent's tools, followed by the task message.
C21_TranscriptAppendOnly ==
    /\ [][AppendOnlyStep]_vars
    /\ [](client /\ pc \in {"iter", "act", "done"} =>
             /\ Len(messages) >= 2
             /\ messages[1] = [content |-> PyStr(get_system_prompt(tools)),
                               role |-> "system"]
             /\ messages[2] = [content |-> PyStr(<<"The user's task is: ">> \o task),
                               role |-> "user"])

\* A run that has appended two responses and two observations after its two
\* initial messages.
C21_Witness ==
    /\ pc = "done" /\ client
    /\ Len(messages) = 6 /\ Len(iters) = 2
    /\ messages[1].role = "system"
    /\ messages[3].role = "assistant" /\ IsObservation(messages[4])
    /\ messages[5].role = "assistant" /\ IsObservation(messages[6])

\* C22: every argument the loop acts on is a string: each tool run the loop
\* makes receives a string, and a run that ends on a final answer returns a
\* string.
C22_ArgumentIsString ==
    /\ \A n \in DOMAIN toolCalls : toolCalls[n].argument.ty = "str"
    /\ \A k \in Finished :
           iters[k].kind = "return" => result.value.ty = "str"

\* The response is a well-formed action naming final_answer whose argument
\* field is absent or null.
FinalWithoutArgument(snt) ==
    NamesTool(snt, FINAL_ANSWER) /\ ArgumentOf(snt.value) = PyNone

\* C23: an iteration whose action names final_answer without an argument (the
\* field absent or null) does not end the run: it runs no tool, appends one
\* 'An error occurred in the previous step' observation that carries the
\* TypeError's text, and the loop goes on; a run in which no iteration
\* returned ends in the budget message.
C23_FinalWithoutArgumentAbsorbed ==
    /\ \A k \in Finished :
           FinalWithoutArgument(sent[k]) =>
               /\ iters[k].kind = "continue"
               /\ iters[k].calls = <<>>
               /\ ObservedText(iters[k],
                     <<"An error occurred in the previous step: ",
                       "'", "NoneType", "' object is not subscriptable",
                       ". Please assess the situation and proceed.">>)
               /\ WentOn(k)
    /\ (pc = "done" /\ client /\ \A k \in Finished : iters[k].kind # "return") =>
           result = Returned(BUDGET_MESSAGE)

\* A final answer with a null argument in the first iteration, one with the
\* field absent in the second, and the run ended in the budget message.
C23_Witness ==
    /\ pc = "done" /\ Len(iters) = 2 /\ max_iterations = 2
    /\ FinalWithoutArgument(sent[1]) /\ HasArgument(sent[1].value)
    /\ FinalWithoutArgument(sent[2]) /\ ~HasArgument(sent[2].value)
    /\ result = Returned(BUDGET_MESSAGE)
    /\ Len(messages) = 6

\* The loop stands before a call of the reasoning backend, which receives
\* the transcript as it is.
AboutToCall == pc = "iter" /\ LoopRuns(i, max_iterations)

\* C24: the transcript of every backend call begins with the system message
\* and ends with a user message, the task message in the first iteration and
\* an observation in every later one; its last message is never an assistant
\* turn.
C24_CallEndsWithUserTurn ==
    AboutToCall =>
        /\ messages[1].role = "system"
        /\ messages[Len(messages)].role = "user"
        /\ i = 0 => /\ Len(messages) = 2
                    /\ messages[2].content = PyStr(<<"The user's task is: ">> \o task)
        /\ i > 0 => /\ IsObservation(messages[Len(messages)])
                    /\ messages[Len(messages)] = iters[i].appended[1]

\* The second call of a run is about to be made after an iteration whose
\* response was recorded: the transcript ends with that iteration's
\* observation, after the assistant turn.
C24_Witness ==
    /\ AboutToCall /\ i = 1 /\ backendCalls = 1
    /\ sent[1].kind = "ok"
    /\ Len(messages) = 4
    /\ messages[3].role = "assistant"
    /\ IsObservation(messages[4])

\* The workers whose thread has not ended, and those still inside agent.run.
AliveWorkers == {w \in DOMAIN gui.workers : IsAlive(w)}
RunningWorkers == {w \in DOMAIN gui.workers : gui.workers[w].pc = "run"}

\* C25: whenever the start button is enabled after a run, the worker of
\* that run has put its message and the message has been taken from the
\* queue; what is shown comes from the run started last; and with no worker
\* alive the queue is empty.
C25_ResultTakenBeforeReenable ==
    (gui.button = "normal" /\ gui.main = "loop" /\ gui.workers # <<>>) =>
        /\ gui.workers[Len(gui.workers)].puts = 1
        /\ \A n \in DOMAIN gui.queue : gui.queue[n].run # Len(gui.workers)
        /\ \A n \in DOMAIN gui.shown : gui.shown[n].run = Len(gui.workers)
        /\ AliveWorkers = {} => gui.queue = <<>>

\* C26: at most one worker is inside agent.run at any time, and none is while
\* the start button is enabled.
C26_OneWorkerAtATime ==
    /\ Cardinality(RunningWorkers) <= 1
    /\ gui.button = "normal" => RunningWorkers = {}

\* A worker has put nothing while agent.run is running in it and has put one
\* message once run_agent_task is over.
PutOnce(w) ==
    /\ gui.workers[w].pc = "run" => gui.workers[w].puts = 0
    /\ gui.workers[w].pc # "run" => gui.workers[w].puts = 1

\* Worker w was started and has put its message.
HasPut(w) == w \in DOMAIN gui.workers /\ gui.workers[w].puts = 1

\* The start button is enabled and no check_queue callback is scheduled or
\* running.
WindowAtRest == gui.button = "normal" /\ gui.polls = 0 /\ gui.main = "loop"

\* C27: every worker that was started puts exactly one message, never a
\* second; whenever the button is enabled no check_queue callback is
\* scheduled; and from every state in which a worker was started and the
\* button is disabled, the button is enabled again with the polling stopped.
C27_WorkerPutsOnceAndWindowRecovers ==
    /\ [](\A w \in DOMAIN gui.workers : PutOnce(w))
    /\ [](gui.button = "normal" /\ gui.main = "loop" => gui.polls = 0)
    /\ \A w \in 1..MaxRuns :
           (w \in DOMAIN gui.workers) ~> HasPut(w)
    /\ (gui.workers # <<>> /\ gui.button = "disabled") ~> WindowAtRest

\* A worker whose agent.run raised has put its one message, the error text,
\* which was taken and shown, and the window is at rest with the worker's
\* thread ended.
C27_Witness ==
    /\ Len(gui.workers) = 1 /\ gui.workers[1] = [pc |-> "dead",
                                                  task |-> <<"Summarize topic X">>,
                                                  puts |-> 1]
    /\ WindowAtRest
    /\ gui.queue = <<>>
    /\ gui.shown = << [value |-> PyStr(<<"Error during agent execution: ", "OSError">>),
                       run |-> 1] >>
    /\ gui.status = "Agent finished."

====
